---- MODULE Spec2Model ----
(***************************************************************************)
(* Model of src/src/main/cpp/gguf_processor.cpp: the GGUFProcessor class   *)
(* (initialize, processRequest, getStats and their private helpers) and    *)
(* the exported C functions built on the global processor instance.        *)
(*                                                                         *)
(* Four specifications share the definitions below:                        *)
(*   Spec        threads call initialize and processRequest of one         *)
(*               GGUFProcessor object                                      *)
(*   StatsSpec   the same, with calls of getStats as well                  *)
(*   ExportSpec  threads call the exported functions, which serialise on   *)
(*               global_mutex and forward to the global processor          *)
(*   SampleSpec  sample_token applied to every logit vector                *)
(*                                                                         *)
(* The llama.cpp backend is external: the results of llama_tokenize,       *)
(* llama_eval, llama_get_logits, the model/context loaders and the clocks  *)
(* are nondeterministic choices from small sets.  Logits are modelled as   *)
(* integers, i.e. as totally ordered finite values.                        *)
(***************************************************************************)
EXTENDS Integers, Sequences, FiniteSets, TLC

\* ---------------------------------------------------------------- bounds
NumThreads ==
    2
MaxRequests ==
    2
MaxStatsCalls ==
    1
MaxPromptLen ==
    1
n_predict ==
    2
n_vocab ==
    3
MaxLogit ==
    4
MaxDuration ==
    1
MaxLines ==
    3
NumModels ==
    2
MaxLoads ==
    2
NumDevices ==
    2
MaxScore ==
    2

\* ---------------------------------------------------------------- values
Threads == 1..NumThreads
NoThread == 0
nullptr == "nullptr"
llama_token_eos ==
    2
LogitValues == 0..MaxLogit
LogitVectors == [1..n_vocab -> LogitValues]
PromptSizes == 1..MaxPromptLen
Durations == 1..MaxDuration
Timestamps == {1}
NoResult == [none |-> TRUE]
NoLogits == <<>>
NoTokens == <<>>
ZeroAverage == [num |-> 0, exp |-> 0]
ModelIds == 1..NumModels
NoHandle == <<>>
LoadError == <<"ModelLoadError">>
NoEntry == [state |-> "Unloaded", handle |-> NoHandle, refs |-> 0,
            evict |-> FALSE]
\* device ids, numbered in their lexicographic order
DeviceIds == 1..NumDevices
Scores == 1..MaxScore
NoDevice == 0
NotRegistered == [registered |-> FALSE]
MainThread == 1
\* a line of input: its text, where every line that is neither a command nor
\* empty is a prompt, and its length
EmptyLine == [text |-> "", size |-> 0]
Lines ==
    {[text |-> "quit", size |-> 4], [text |-> "exit", size |-> 4], EmptyLine}
        \cup {[text |-> "prompt", size |-> n] : n \in PromptSizes}

VARIABLES
    \* GGUFProcessor fields
    model_, ctx_,
    \* the backend: a model, a context it handed out is neither freed nor
    \* pointed to by the processor any more
    model_leaked, ctx_leaked,
    total_tokens_processed_, total_requests_processed_,
    average_processing_time_,
    processing_mutex_,
    \* globals of the exported interface
    global_processor, global_mutex, last_result, stats_result,
    \* per thread: the pointer an exported function returned and the caller
    \* has not read yet; history: the thread whose call assigned each string
    ret_ptr, last_result_by, stats_result_by,
    \* per thread: position, caller frame and arguments of processRequest
    pc, caller, request_id, prompt,
    \* per thread: locals of processRequest and generate
    tokens, response_tokens, i, token, duration, avg_loaded,
    \* per thread: the value the call in progress is returning
    result,
    \* history
    nextId, statsCalls, evals, n_past, sampled, completed, caught,
    success_tokens, snapshots,
    \* sample_token applied on its own: the logits read and the token returned
    sample_in, sample_out,
    \* main: position, state of std::cin, the locals prompt and request_count
    main_pc, cin_state, main_prompt, request_count,
    \* history of main: getline calls made, request ids submitted
    reads, submitted,
    \* ModelCache: the map, and per thread the position in acquire, the model
    \* id asked for and the handle received
    models_, cache_pc, cache_id, cache_handle,
    \* history of the cache: per thread whether its acquire waited for the
    \* load of another caller, per model id the backend loads started
    awaited, loads,
    \* EdgeCoordinator: the registry, and the history of getOptimalDevice:
    \* the last operation, the device it returned, the one returned before
    devices_, last_op, selected, prev_selected,
    \* the requests whose caller asked for cancellation during generation
    cancel_requested

modelVars == <<model_, ctx_, model_leaked, ctx_leaked>>
statVars == <<total_tokens_processed_, total_requests_processed_,
              average_processing_time_>>
staticVars == <<last_result, stats_result, last_result_by, stats_result_by,
                ret_ptr>>
exportVars == <<global_processor, global_mutex, staticVars>>
sampleVars == <<sample_in, sample_out>>
mainVars == <<main_pc, cin_state, main_prompt, request_count, reads, submitted>>
cacheVars == <<models_, cache_pc, cache_id, cache_handle, awaited, loads>>
deviceVars == <<devices_, last_op, selected, prev_selected>>
extraVars == <<mainVars, cacheVars, deviceVars, cancel_requested>>
nonMainVars == <<exportVars, sampleVars, cacheVars, deviceVars,
                 cancel_requested>>
nonExportVars == <<sampleVars, extraVars>>
nonSampleVars == <<exportVars, extraVars>>
globalVars == <<exportVars, sampleVars, extraVars>>
callVars == <<caller, request_id, prompt>>
localVars == <<tokens, response_tokens, i, token, duration, avg_loaded>>
historyVars == <<nextId, statsCalls, evals, n_past, sampled, completed,
                 caught, success_tokens, snapshots>>
vars == <<modelVars, statVars, processing_mutex_, globalVars, pc, callVars,
          localVars, result, historyVars>>

\* ------------------------------------------------------- pure helpers
isModelLoaded == model_ # nullptr /\ ctx_ # nullptr

\* llama_token_to_piece: the backend's text fragment of one token
llama_token_to_piece(tok) == <<tok>>

RECURSIVE detokenize(_)
detokenize(toks) ==
    IF toks = <<>> THEN <<>>
    ELSE LET piece == llama_token_to_piece(Head(toks))
         IN (IF Len(piece) > 0 THEN piece ELSE <<>>) \o detokenize(Tail(toks))

RECURSIVE sample_loop_ge(_, _, _, _)
sample_loop_ge(lg, k, best_token, best_logit) ==
    IF k >= n_vocab THEN best_token
    ELSE IF lg[k + 1] >= best_logit
         THEN sample_loop_ge(lg, k + 1, k, lg[k + 1])
         ELSE sample_loop_ge(lg, k + 1, best_token, best_logit)

\* the loop of sample_token: k is the loop index, tokens are 0-based,
\* lg[k + 1] is logits[k]
RECURSIVE sample_loop(_, _, _, _)
sample_loop(lg, k, best_token, best_logit) ==
    IF k >= n_vocab THEN best_token
    ELSE IF lg[k + 1] > best_logit
         THEN sample_loop(lg, k + 1, k, lg[k + 1])
         ELSE sample_loop(lg, k + 1, best_token, best_logit)

sample_token(lg) == sample_loop(lg, 1, 0, lg[1])

\* the tokens sample_token returns over all logit vectors the backend can
\* leave in the context
SampledTokens == {sample_token(lg) : lg \in LogitVectors}

createSuccessResponse(text, rid, processing_time, ts) ==
    [success |-> TRUE, request_id |-> rid, response |-> text,
     processing_time_ms |-> processing_time, model |-> "gemma-3-270m-q4_0",
     timestamp |-> ts]

createErrorResponse(error, rid, ts) ==
    [success |-> FALSE, request_id |-> rid, error |-> error, timestamp |-> ts]

NotInitializedResponse ==
    [success |-> FALSE, error |-> "Processor not initialized"]

\* avg * 0.99 + current_time * 0.01, kept exact as num / 100^exp
moving_average(avg, current_time) ==
    [num |-> 99 * avg.num + current_time * (100 ^ avg.exp), exp |-> avg.exp + 1]

StatsSnapshot(requests, toks, avg) ==
    [total_requests |-> requests, total_tokens |-> toks,
     avg_processing_time_ms |-> avg]

\* ---------------------------------------------------------------- Init
Init ==
    /\ model_ = nullptr
    /\ ctx_ = nullptr
    /\ model_leaked = FALSE
    /\ ctx_leaked = FALSE
    /\ total_tokens_processed_ = 0
    /\ total_requests_processed_ = 0
    /\ average_processing_time_ = ZeroAverage
    /\ processing_mutex_ = NoThread
    /\ global_processor = nullptr
    /\ global_mutex = NoThread
    /\ last_result = NoResult
    /\ stats_result = NoResult
    /\ ret_ptr = [t \in Threads |-> "none"]
    /\ last_result_by = NoThread
    /\ stats_result_by = NoThread
    /\ pc = [t \in Threads |-> "idle"]
    /\ caller = [t \in Threads |-> "none"]
    /\ request_id = [t \in Threads |-> 0]
    /\ prompt = [t \in Threads |-> 0]
    /\ tokens = [t \in Threads |-> NoTokens]
    /\ response_tokens = [t \in Threads |-> NoTokens]
    /\ i = [t \in Threads |-> 0]
    /\ token = [t \in Threads |-> 0]
    /\ duration = [t \in Threads |-> 0]
    /\ avg_loaded = [t \in Threads |-> ZeroAverage]
    /\ result = [t \in Threads |-> NoResult]
    /\ nextId = 1
    /\ statsCalls = 0
    /\ evals = [t \in Threads |-> 0]
    /\ n_past = [t \in Threads |-> 0]
    /\ sampled = [t \in Threads |-> <<>>]
    /\ completed = 0
    /\ caught = 0
    /\ success_tokens = 0
    /\ snapshots = {StatsSnapshot(0, 0, ZeroAverage)}
    /\ sample_in = NoLogits
    /\ sample_out = 0
    /\ main_pc = "start"
    /\ cin_state = "good"
    /\ main_prompt = EmptyLine
    /\ request_count = 0
    /\ reads = 0
    /\ submitted = <<>>
    /\ models_ = [id \in ModelIds |-> NoEntry]
    /\ cache_pc = [t \in Threads |-> "idle"]
    /\ cache_id = [t \in Threads |-> 0]
    /\ cache_handle = [t \in Threads |-> NoHandle]
    /\ awaited = [t \in Threads |-> FALSE]
    /\ loads = [id \in ModelIds |-> 0]
    /\ devices_ = [d \in DeviceIds |-> NotRegistered]
    /\ last_op = "none"
    /\ selected = NoDevice
    /\ prev_selected = NoDevice
    /\ cancel_requested = {}

\* ------------------------------------------------ GGUFProcessor::initialize
\* llama_load_model_from_file and llama_new_context_with_model succeed or
\* fail; the method takes no lock, so it is called while no call is in
\* progress (as main and initialize_processor do).
\* old_model and old_ctx are the fields before the call.  The result of the
\* load is assigned to model_ and the new context to ctx_ without a free of
\* what they pointed to; a context failure frees the model just loaded.
initialize_fields(load_ok, ctx_ok, old_model, old_ctx) ==
    /\ model_' = IF load_ok /\ ctx_ok THEN "model" ELSE nullptr
    /\ ctx_' = IF ~load_ok THEN old_ctx ELSE IF ctx_ok THEN "ctx" ELSE nullptr
    /\ model_leaked' = (model_leaked \/ old_model # nullptr)
    /\ ctx_leaked' = (ctx_leaked \/ (load_ok /\ old_ctx # nullptr))

initialize(t) ==
    /\ \A u \in Threads : pc[u] = "idle"
    /\ \E load_ok, ctx_ok \in BOOLEAN : initialize_fields(load_ok, ctx_ok, model_, ctx_)
    /\ UNCHANGED <<statVars, processing_mutex_, globalVars, pc, callVars,
                   localVars, result, historyVars>>

\* -------------------------------------------- GGUFProcessor::processRequest
\* the locals of the try block go out of scope
LocalsGone(t) ==
    /\ tokens' = [tokens EXCEPT ![t] = NoTokens]
    /\ response_tokens' = [response_tokens EXCEPT ![t] = NoTokens]
    /\ i' = [i EXCEPT ![t] = 0]
    /\ token' = [token EXCEPT ![t] = 0]
    /\ duration' = [duration EXCEPT ![t] = 0]
    /\ avg_loaded' = [avg_loaded EXCEPT ![t] = ZeroAverage]
    /\ evals' = [evals EXCEPT ![t] = 0]
    /\ n_past' = [n_past EXCEPT ![t] = 0]
    /\ sampled' = [sampled EXCEPT ![t] = <<>>]

\* a caller enters processRequest(prompt, request_id) with a fresh id
EnterProcessRequest(t, p, from) ==
    /\ nextId <= MaxRequests
    /\ request_id' = [request_id EXCEPT ![t] = nextId]
    /\ nextId' = nextId + 1
    /\ prompt' = [prompt EXCEPT ![t] = p]
    /\ caller' = [caller EXCEPT ![t] = from]
    /\ pc' = [pc EXCEPT ![t] = "lock"]
    /\ UNCHANGED <<localVars, result, statsCalls, evals, n_past, sampled, completed,
                   caught, success_tokens, snapshots>>

processRequest_call(t) ==
    /\ pc[t] = "idle"
    /\ \E p \in PromptSizes : EnterProcessRequest(t, p, "none")
    /\ UNCHANGED <<modelVars, statVars, processing_mutex_, globalVars>>

\* a return statement of processRequest has built its value; the lock is
\* still held
ReturnResponse(t, r) ==
    /\ result' = [result EXCEPT ![t] = r]
    /\ pc' = [pc EXCEPT ![t] = "unlock"]

\* catch (const std::exception& e) { return createErrorResponse(...); }
CatchException(t, what) ==
    /\ \E ts \in Timestamps :
           ReturnResponse(t, createErrorResponse(what, request_id[t], ts))
    /\ caught' = caught + 1
    /\ LocalsGone(t)
    /\ UNCHANGED <<modelVars, statVars, processing_mutex_, globalVars,
                   callVars, nextId, statsCalls, completed, success_tokens,
                   snapshots>>

lock_available_never_waits ==
    TRUE

\* std::lock_guard<std::mutex> lock(processing_mutex_) can be taken
lock_available ==
    processing_mutex_ = NoThread

processRequest_lock(t) ==
    /\ pc[t] = "lock"
    /\ lock_available
    /\ processing_mutex_' = t
    /\ IF isModelLoaded
       THEN /\ pc' = [pc EXCEPT ![t] = "tokenize"]
            /\ UNCHANGED result
       ELSE \E ts \in Timestamps :
                ReturnResponse(t, createErrorResponse("Model not loaded",
                                                      request_id[t], ts))
    /\ UNCHANGED <<modelVars, statVars, globalVars, callVars, localVars,
                   historyVars>>

\* llama_tokenize with add_bos: the begin-of-sequence token and one token
\* per character of the text, or a negative number when it fails
llama_tokenize(text_size) == {-1, text_size + 1}

\* tokenize: tokens.resize(n_tokens) throws std::length_error on a negative
\* count
processRequest_tokenize(t) ==
    /\ pc[t] = "tokenize"
    /\ \E n_tokens \in llama_tokenize(prompt[t]) :
         IF n_tokens < 0
         THEN CatchException(t, "vector::_M_default_append")
         ELSE /\ tokens' = [tokens EXCEPT ![t] = [j \in 1..n_tokens |-> 0]]
              /\ pc' = [pc EXCEPT ![t] = "eval_prompt"]
              /\ UNCHANGED <<modelVars, statVars, processing_mutex_,
                             globalVars, callVars, response_tokens, i, token,
                             duration, avg_loaded, result, historyVars>>

\* generate: llama_eval of the prompt at position 0
generate_eval_prompt(t) ==
    /\ pc[t] = "eval_prompt"
    /\ \/ /\ evals' = [evals EXCEPT ![t] = @ + 1]
          /\ n_past' = [n_past EXCEPT ![t] = 0]
          /\ pc' = [pc EXCEPT ![t] = "sample"]
          /\ UNCHANGED <<modelVars, statVars, processing_mutex_, globalVars,
                         callVars, localVars, result>>
          /\ UNCHANGED <<nextId, statsCalls, sampled, completed, caught,
                         success_tokens, snapshots>>
       \/ CatchException(t, "Failed to evaluate prompt")

loop_guard_inclusive(k) ==
    k <= n_predict

\* the condition of for (int i = 0; i < config_.n_predict; ++i)
loop_guard(k) ==
    k < n_predict

is_end_of_sequence_wrong_token(tok) ==
    tok = llama_token_eos + 1

\* token == llama_token_eos(model_)
is_end_of_sequence(tok) ==
    tok = llama_token_eos

\* one pass through the loop head: the guard, sample_token on the logits
\* that llama_get_logits returns, and the end-of-sequence test
generate_sample(t) ==
    /\ pc[t] = "sample"
    /\ IF loop_guard(i[t])
       THEN \E tok \in SampledTokens :
                 /\ token' = [token EXCEPT ![t] = tok]
                 /\ sampled' = [sampled EXCEPT ![t] = Append(@, tok)]
                 /\ pc' = [pc EXCEPT ![t] =
                              IF is_end_of_sequence(tok) THEN "finish"
                                                       ELSE "push_eval"]
       ELSE /\ pc' = [pc EXCEPT ![t] = "finish"]
            /\ UNCHANGED <<token, sampled>>
    /\ UNCHANGED <<modelVars, statVars, processing_mutex_, globalVars,
                   callVars, tokens, response_tokens, i, duration, avg_loaded,
                   result>>
    /\ UNCHANGED <<nextId, statsCalls, evals, n_past, completed, caught,
                   success_tokens, snapshots>>

\* the position argument of the llama_eval of a generated token, taken after
\* the push_back: prompt_tokens.size() + response_tokens.size()
eval_position(prompt_tokens, pushed_tokens) ==
    Len(prompt_tokens) + Len(pushed_tokens)

\* response_tokens.push_back(token), llama_eval of the new token, ++i
generate_push_eval(t) ==
    /\ pc[t] = "push_eval"
    /\ \/ /\ evals' = [evals EXCEPT ![t] = @ + 1]
          /\ response_tokens' = [response_tokens EXCEPT ![t] = Append(@, token[t])]
          /\ n_past' = [n_past EXCEPT ![t] =
                            eval_position(tokens[t], response_tokens'[t])]
          /\ i' = [i EXCEPT ![t] = @ + 1]
          /\ pc' = [pc EXCEPT ![t] = "sample"]
          /\ UNCHANGED <<modelVars, statVars, processing_mutex_, globalVars,
                         callVars, tokens, token, duration, avg_loaded,
                         result>>
          /\ UNCHANGED <<nextId, statsCalls, sampled, completed, caught,
                         success_tokens, snapshots>>
       \/ CatchException(t, "Failed to evaluate token")

\* generate has returned: detokenize and take end_time - start_time
processRequest_finish(t) ==
    /\ pc[t] = "finish"
    /\ \E d \in Durations : duration' = [duration EXCEPT ![t] = d]
    /\ pc' = [pc EXCEPT ![t] = "stat_req"]
    /\ UNCHANGED <<modelVars, statVars, processing_mutex_, globalVars,
                   callVars, tokens, response_tokens, i, token, avg_loaded,
                   result, historyVars>>

\* total_requests_processed_++
processRequest_stat_requests(t) ==
    /\ pc[t] = "stat_req"
    /\ total_requests_processed_' = total_requests_processed_ + 1
    /\ pc' = [pc EXCEPT ![t] = "stat_tok"]
    /\ UNCHANGED <<modelVars, total_tokens_processed_,
                   average_processing_time_, processing_mutex_, globalVars,
                   callVars, localVars, result, historyVars>>

tokens_added_completion_only(t) ==
    Len(response_tokens[t])

\* tokens.size() + response_tokens.size()
tokens_added(t) ==
    Len(tokens[t]) + Len(response_tokens[t])

\* total_tokens_processed_ += ...
processRequest_stat_tokens(t) ==
    /\ pc[t] = "stat_tok"
    /\ total_tokens_processed_' = total_tokens_processed_ + tokens_added(t)
    /\ pc' = [pc EXCEPT ![t] = "stat_avg_load"]
    /\ UNCHANGED <<modelVars, total_requests_processed_,
                   average_processing_time_, processing_mutex_, globalVars,
                   callVars, localVars, result, historyVars>>

\* the atomic load in average_processing_time_ * 0.99
processRequest_stat_avg_load(t) ==
    /\ pc[t] = "stat_avg_load"
    /\ avg_loaded' = [avg_loaded EXCEPT ![t] = average_processing_time_]
    /\ pc' = [pc EXCEPT ![t] = "stat_avg_store"]
    /\ UNCHANGED <<modelVars, statVars, processing_mutex_, globalVars,
                   callVars, tokens, response_tokens, i, token, duration,
                   result, historyVars>>

\* the atomic store of the new average; the statistics of this request are
\* now complete
processRequest_stat_avg_store(t) ==
    /\ pc[t] = "stat_avg_store"
    /\ average_processing_time_' = moving_average(avg_loaded[t], duration[t])
    /\ snapshots' = snapshots \cup
           {StatsSnapshot(total_requests_processed_, total_tokens_processed_,
                          average_processing_time_')}
    /\ pc' = [pc EXCEPT ![t] = "return"]
    /\ UNCHANGED <<modelVars, total_tokens_processed_,
                   total_requests_processed_, processing_mutex_, globalVars,
                   callVars, localVars, result>>
    /\ UNCHANGED <<nextId, statsCalls, evals, n_past, sampled, completed, caught,
                   success_tokens>>

\* return createSuccessResponse(response_text, request_id, duration.count())
processRequest_return(t) ==
    /\ pc[t] = "return"
    /\ \E ts \in Timestamps :
           ReturnResponse(t, createSuccessResponse(
               detokenize(response_tokens[t]), request_id[t], duration[t], ts))
    /\ success_tokens' = success_tokens + Len(tokens[t]) + Len(response_tokens[t])
    /\ LocalsGone(t)
    /\ UNCHANGED <<modelVars, statVars, processing_mutex_, globalVars,
                   callVars, nextId, statsCalls, completed, caught, snapshots>>

mutex_after_return_kept_on_error(t) ==
    IF result[t].success THEN NoThread ELSE t

\* the lock_guard destructor runs on every return
mutex_after_return(t) ==
    NoThread

\* processRequest ends: the lock is released and the caller has the value
processRequest_exit(t) ==
    /\ pc[t] = "unlock"
    /\ processing_mutex_' = mutex_after_return(t)
    /\ completed' = completed + 1
    /\ IF caller[t] = "process_request"
       THEN /\ pc' = [pc EXCEPT ![t] = "pr_ret"]
            /\ UNCHANGED <<result, callVars>>
       ELSE /\ pc' = [pc EXCEPT ![t] = "idle"]
            /\ result' = [result EXCEPT ![t] = NoResult]
            /\ request_id' = [request_id EXCEPT ![t] = 0]
            /\ prompt' = [prompt EXCEPT ![t] = 0]
            /\ UNCHANGED caller
    /\ UNCHANGED <<modelVars, statVars, globalVars, localVars, nextId,
                   statsCalls, evals, n_past, sampled, caught, success_tokens,
                   snapshots>>

\* ------------------------------------------------ GGUFProcessor::getStats
\* the three atomic loads are separate steps; the first one starts the call
getStats_requests(t) ==
    /\ pc[t] = "idle"
    /\ statsCalls < MaxStatsCalls
    /\ statsCalls' = statsCalls + 1
    /\ result' = [result EXCEPT ![t] =
                     [total_requests |-> total_requests_processed_]]
    /\ pc' = [pc EXCEPT ![t] = "gs_tok"]
    /\ UNCHANGED <<modelVars, statVars, processing_mutex_, globalVars,
                   callVars, localVars>>
    /\ UNCHANGED <<nextId, evals, n_past, sampled, completed, caught, success_tokens,
                   snapshots>>

getStats_tokens(t) ==
    /\ pc[t] = "gs_tok"
    /\ result' = [result EXCEPT ![t] =
                     [total_requests |-> result[t].total_requests,
                      total_tokens |-> total_tokens_processed_]]
    /\ pc' = [pc EXCEPT ![t] = "gs_avg"]
    /\ UNCHANGED <<modelVars, statVars, processing_mutex_, globalVars,
                   callVars, localVars, historyVars>>

getStats_avg(t) ==
    /\ pc[t] = "gs_avg"
    /\ result' = [result EXCEPT ![t] =
                     StatsSnapshot(result[t].total_requests,
                                   result[t].total_tokens,
                                   average_processing_time_)]
    /\ pc' = [pc EXCEPT ![t] = "gs_ret"]
    /\ UNCHANGED <<modelVars, statVars, processing_mutex_, globalVars,
                   callVars, localVars, historyVars>>

\* return stats
getStats_exit(t) ==
    /\ pc[t] = "gs_ret"
    /\ result' = [result EXCEPT ![t] = NoResult]
    /\ pc' = [pc EXCEPT ![t] = "idle"]
    /\ UNCHANGED <<modelVars, statVars, processing_mutex_, globalVars,
                   callVars, localVars, historyVars>>

\* the steps inside processRequest, shared by both specifications
processRequest_step(t) ==
    \/ processRequest_lock(t)
    \/ processRequest_tokenize(t)
    \/ generate_eval_prompt(t)
    \/ generate_sample(t)
    \/ generate_push_eval(t)
    \/ processRequest_finish(t)
    \/ processRequest_stat_requests(t)
    \/ processRequest_stat_tokens(t)
    \/ processRequest_stat_avg_load(t)
    \/ processRequest_stat_avg_store(t)
    \/ processRequest_return(t)
    \/ processRequest_exit(t)

\* threads calling initialize and processRequest of one processor
Next ==
    \E t \in Threads :
        \/ initialize(t)
        \/ processRequest_call(t)
        \/ processRequest_step(t)

Spec == Init /\ [][Next]_vars

\* the same threads, calling getStats as well
NextStats ==
    \E t \in Threads :
        \/ initialize(t)
        \/ processRequest_call(t)
        \/ processRequest_step(t)
        \/ getStats_requests(t)
        \/ getStats_tokens(t)
        \/ getStats_avg(t)
        \/ getStats_exit(t)

StatsSpec == Init /\ [][NextStats]_vars

\* --------------------------------------------------------- cancellation
\* The caller of a running generation asks for its cancellation.  generate
\* takes no cancellation token and reads no flag in its loop, and the
\* callbacks of chatCompletionStream return nothing, so the request changes
\* nothing the generation reads.
cancel_request(t) ==
    /\ pc[t] \in {"sample", "push_eval"}
    /\ request_id[t] \notin cancel_requested
    /\ cancel_requested' = cancel_requested \cup {request_id[t]}
    /\ UNCHANGED <<modelVars, statVars, processing_mutex_, exportVars,
                   sampleVars, mainVars, cacheVars, deviceVars, pc, callVars,
                   localVars, result, historyVars>>

\* threads calling initialize and processRequest, and callers cancelling
NextCancel ==
    \E t \in Threads :
        \/ initialize(t)
        \/ processRequest_call(t)
        \/ processRequest_step(t)
        \/ cancel_request(t)

CancelSpec == Init /\ [][NextCancel]_vars

\* ------------------------------------------------ the exported functions
\* Each exported function holds global_mutex from its first statement to its
\* return.  initialize_processor and shutdown_processor call nothing that
\* waits and are one step, taken when the mutex is free; process_request
\* keeps the mutex over the steps of processRequest.  A function returning
\* const char* leaves the caller with a pointer, which the caller reads in a
\* later step of its own.

global_lock_never_waits ==
    TRUE

\* std::lock_guard<std::mutex> lock(global_mutex) can be taken
global_lock_available ==
    global_mutex = NoThread

StatsNotInitialized == [error |-> "Processor not initialized"]

\* delete global_processor: ~GGUFProcessor calls unloadModel
delete_processor ==
    /\ total_tokens_processed_' = 0
    /\ total_requests_processed_' = 0
    /\ average_processing_time_' = ZeroAverage

initialize_processor(t) ==
    /\ pc[t] = "idle"
    /\ global_lock_available
    /\ delete_processor
    /\ global_processor' = "processor"
    /\ \E load_ok, ctx_ok \in BOOLEAN :
           initialize_fields(load_ok, ctx_ok, nullptr, nullptr)
    /\ completed' = 0
    /\ caught' = 0
    /\ success_tokens' = 0
    /\ snapshots' = {StatsSnapshot(0, 0, ZeroAverage)}
    /\ UNCHANGED <<processing_mutex_, global_mutex, staticVars,
                   nonExportVars, pc, callVars, localVars, result, nextId,
                   statsCalls, evals, n_past, sampled>>

process_request_call(t) ==
    /\ pc[t] = "idle"
    /\ global_lock_available
    /\ global_mutex' = t
    /\ IF global_processor = nullptr
       THEN /\ nextId <= MaxRequests
            /\ nextId' = nextId + 1
            /\ request_id' = [request_id EXCEPT ![t] = nextId]
            /\ result' = [result EXCEPT ![t] = NotInitializedResponse]
            /\ pc' = [pc EXCEPT ![t] = "pr_exit"]
            /\ UNCHANGED <<caller, prompt, localVars, statsCalls, evals, n_past,
                           sampled, completed, caught, success_tokens,
                           snapshots>>
       ELSE \E p \in PromptSizes : EnterProcessRequest(t, p, "process_request")
    /\ UNCHANGED <<modelVars, statVars, processing_mutex_, global_processor,
                   staticVars, nonExportVars>>

\* last_result = global_processor->processRequest(prompt, request_id)
process_request_return(t) ==
    /\ pc[t] = "pr_ret"
    /\ last_result' = result[t]
    /\ last_result_by' = t
    /\ pc' = [pc EXCEPT ![t] = "pr_exit"]
    /\ UNCHANGED <<modelVars, statVars, processing_mutex_, global_processor,
                   global_mutex, stats_result, stats_result_by, ret_ptr,
                   nonExportVars, callVars, localVars, result, historyVars>>

\* the threads other than t that hold the pointer p, or are about to return
\* it from the call that assigned the string
OtherHolders(t, p) ==
    {u \in Threads \ {t} :
        \/ ret_ptr[u] = p
        \/ p = "last_result" /\ pc[u] = "pr_exit"
                             /\ caller[u] = "process_request"
        \/ p = "stats_result" /\ pc[u] = "gps_exit"
                              /\ result[u] # StatsNotInitialized}

\* the caller t has read the string behind its pointer.  A static string
\* that no caller holds a pointer to is assigned before it is read again,
\* so the model drops its value at this point.
ReadThroughPointer(t) ==
    /\ IF OtherHolders(t, "last_result") = {}
       THEN last_result' = NoResult /\ last_result_by' = NoThread
       ELSE UNCHANGED <<last_result, last_result_by>>
    /\ IF OtherHolders(t, "stats_result") = {}
       THEN stats_result' = NoResult /\ stats_result_by' = NoThread
       ELSE UNCHANGED <<stats_result, stats_result_by>>

\* process_request ends: global_mutex is released and the caller has the
\* pointer, last_result.c_str() or the string literal.  The caller keeps the
\* pointer for a later read, or reads the string before any other step.
process_request_exit(t, keep) ==
    /\ pc[t] = "pr_exit"
    /\ global_mutex' = NoThread
    /\ caller' = [caller EXCEPT ![t] = "none"]
    /\ prompt' = [prompt EXCEPT ![t] = 0]
    /\ result' = [result EXCEPT ![t] = NoResult]
    /\ IF keep
       THEN /\ ret_ptr' = [ret_ptr EXCEPT ![t] =
                              IF caller[t] = "process_request"
                              THEN "last_result" ELSE "literal"]
            /\ pc' = [pc EXCEPT ![t] = "read"]
            /\ UNCHANGED <<request_id, last_result, stats_result,
                           last_result_by, stats_result_by>>
       ELSE /\ pc' = [pc EXCEPT ![t] = "idle"]
            /\ request_id' = [request_id EXCEPT ![t] = 0]
            /\ ReadThroughPointer(t)
            /\ UNCHANGED ret_ptr
    /\ UNCHANGED <<modelVars, statVars, processing_mutex_, global_processor,
                   nonExportVars, localVars, historyVars>>

\* get_processor_stats takes the mutex and builds its string
get_processor_stats_call(t) ==
    /\ pc[t] = "idle"
    /\ global_lock_available
    /\ statsCalls < MaxStatsCalls
    /\ statsCalls' = statsCalls + 1
    /\ global_mutex' = t
    /\ IF global_processor = nullptr
       THEN /\ result' = [result EXCEPT ![t] = StatsNotInitialized]
            /\ UNCHANGED <<stats_result, stats_result_by>>
       ELSE /\ stats_result' = StatsSnapshot(total_requests_processed_,
                                             total_tokens_processed_,
                                             average_processing_time_)
            /\ stats_result_by' = t
            /\ UNCHANGED result
    /\ pc' = [pc EXCEPT ![t] = "gps_exit"]
    /\ UNCHANGED <<modelVars, statVars, processing_mutex_, global_processor,
                   last_result, last_result_by, ret_ptr, nonExportVars,
                   callVars, localVars, nextId, evals, n_past, sampled, completed,
                   caught, success_tokens, snapshots>>

\* get_processor_stats ends: global_mutex is released and the caller has the
\* pointer, stats_result.c_str() or the string literal
get_processor_stats_exit(t, keep) ==
    /\ pc[t] = "gps_exit"
    /\ global_mutex' = NoThread
    /\ result' = [result EXCEPT ![t] = NoResult]
    /\ IF keep
       THEN /\ ret_ptr' = [ret_ptr EXCEPT ![t] =
                              IF result[t] = StatsNotInitialized
                              THEN "literal" ELSE "stats_result"]
            /\ pc' = [pc EXCEPT ![t] = "read"]
            /\ UNCHANGED <<last_result, stats_result, last_result_by,
                           stats_result_by>>
       ELSE /\ pc' = [pc EXCEPT ![t] = "idle"]
            /\ ReadThroughPointer(t)
            /\ UNCHANGED ret_ptr
    /\ UNCHANGED <<modelVars, statVars, processing_mutex_, global_processor,
                   nonExportVars, callVars, localVars, historyVars>>

\* the caller reads the string behind the pointer it kept
caller_read(t) ==
    /\ pc[t] = "read"
    /\ pc' = [pc EXCEPT ![t] = "idle"]
    /\ ret_ptr' = [ret_ptr EXCEPT ![t] = "none"]
    /\ request_id' = [request_id EXCEPT ![t] = 0]
    /\ ReadThroughPointer(t)
    /\ UNCHANGED <<modelVars, statVars, processing_mutex_, global_processor,
                   global_mutex, nonExportVars, caller, prompt, localVars,
                   result, historyVars>>

shutdown_processor(t) ==
    /\ pc[t] = "idle"
    /\ global_lock_available
    /\ global_processor # nullptr
    /\ delete_processor
    /\ model_' = nullptr
    /\ ctx_' = nullptr
    /\ global_processor' = nullptr
    /\ UNCHANGED <<model_leaked, ctx_leaked>>
    /\ UNCHANGED <<processing_mutex_, global_mutex, staticVars,
                   nonExportVars, pc, callVars, localVars, result,
                   historyVars>>

\* threads calling the exported functions; every caller reads the returned
\* string at once
NextExport ==
    \E t \in Threads :
        \/ initialize_processor(t)
        \/ process_request_call(t)
        \/ processRequest_step(t)
        \/ process_request_return(t)
        \/ process_request_exit(t, FALSE)
        \/ get_processor_stats_call(t)
        \/ get_processor_stats_exit(t, FALSE)
        \/ shutdown_processor(t)

ExportSpec == Init /\ [][NextExport]_vars

\* the same threads; a caller may keep the returned pointer and read later
NextPointer ==
    \E t \in Threads :
        \/ initialize_processor(t)
        \/ process_request_call(t)
        \/ processRequest_step(t)
        \/ process_request_return(t)
        \/ \E keep \in BOOLEAN : process_request_exit(t, keep)
        \/ get_processor_stats_call(t)
        \/ \E keep \in BOOLEAN : get_processor_stats_exit(t, keep)
        \/ caller_read(t)
        \/ shutdown_processor(t)

PointerSpec == Init /\ [][NextPointer]_vars


\* ------------------------------------------ GGUFProcessor::sample_token
\* sample_token on its own: the backend leaves any logit vector in the
\* context, sample_token reads it and returns a token
sample_token_call ==
    /\ \E lg \in LogitVectors :
           /\ sample_in' = lg
           /\ sample_out' = sample_token(lg)
    /\ UNCHANGED <<modelVars, statVars, processing_mutex_, nonSampleVars,
                   pc,
                   callVars, localVars, result, historyVars>>

NextSample == sample_token_call

SampleSpec == Init /\ [][NextSample]_vars

\* ------------------------------------------------------------------ main
\* "local_" + std::to_string(request_count)
LocalId(n) == <<"local_", n>>

main_is_quit_only(line) ==
    line.text = "quit"

\* prompt == "quit" || prompt == "exit"
main_is_quit(line) ==
    line.text = "quit" \/ line.text = "exit"

\* GGUFProcessor processor; if (!processor.initialize(model_path)) return 1;
main_initialize ==
    /\ main_pc = "start"
    /\ \E load_ok, ctx_ok \in BOOLEAN :
           /\ initialize_fields(load_ok, ctx_ok, model_, ctx_)
           /\ main_pc' = IF load_ok /\ ctx_ok THEN "loop" ELSE "failed"
    /\ UNCHANGED <<statVars, processing_mutex_, nonMainVars,
                   cin_state, main_prompt, request_count, reads, submitted,
                   pc, callVars, localVars, result, historyVars>>

\* std::getline(std::cin, prompt).  On a good stream it erases prompt and
\* reads a line: a terminated line, the unterminated last line (eofbit), or
\* nothing at the end of the input (eofbit and failbit).  On a stream that is
\* not good the sentry fails and prompt keeps its value.
main_getline(line, terminated) ==
    /\ reads < MaxLines
    /\ reads' = reads + 1
    /\ IF cin_state = "good"
       THEN /\ main_prompt' = line
            /\ cin_state' = IF terminated THEN "good"
                            ELSE IF line = EmptyLine THEN "fail" ELSE "eof"
       ELSE /\ main_prompt' = main_prompt
            /\ cin_state' = "fail"

\* one pass of while (true): read a line, leave on quit or exit, skip an
\* empty line, otherwise count the request and call processRequest
main_iteration ==
    /\ main_pc = "loop"
    /\ pc[MainThread] = "idle"
    /\ \E line \in Lines, terminated \in BOOLEAN : main_getline(line, terminated)
    /\ IF main_is_quit(main_prompt')
       THEN /\ main_pc' = "done"
            /\ UNCHANGED <<request_count, submitted, pc, callVars>>
       ELSE IF main_prompt' = EmptyLine
       THEN UNCHANGED <<main_pc, request_count, submitted, pc, callVars>>
       ELSE /\ request_count' = request_count + 1
            /\ request_id' = [request_id EXCEPT
                                 ![MainThread] = LocalId(request_count')]
            /\ prompt' = [prompt EXCEPT ![MainThread] = main_prompt'.size]
            /\ caller' = [caller EXCEPT ![MainThread] = "main"]
            /\ pc' = [pc EXCEPT ![MainThread] = "lock"]
            /\ submitted' = Append(submitted, request_id'[MainThread])
            /\ UNCHANGED main_pc
    /\ UNCHANGED <<modelVars, statVars, processing_mutex_, nonMainVars,
                   localVars, result, historyVars>>

\* processRequest runs on the thread of main
main_processRequest ==
    /\ main_pc = "loop"
    /\ processRequest_step(MainThread)

NextMain ==
    \/ main_initialize
    \/ main_iteration
    \/ main_processRequest

MainSpec == Init /\ [][NextMain]_vars

\* ------------------------------------------------------------ ModelCache
\* The class is declared in llama_inference.h and defined nowhere in the
\* repository; its behaviour is the contract of the model cache: acquire,
\* release and evict, each step taken under cache_mutex_.
nonCacheVars == <<modelVars, statVars, processing_mutex_, exportVars,
                  sampleVars, mainVars, deviceVars, cancel_requested, pc,
                  callVars, localVars, result, historyVars>>

entry_unset_or_loading(id) ==
    models_[id].state \in {"Unloaded", "Loading"}

\* the id has no entry and no load of it is in flight
entry_unset(id) ==
    models_[id].state = "Unloaded"

\* the threads whose acquire of id is at position p
CacheCallers(id, p) == {t \in Threads : cache_pc[t] = p /\ cache_id[t] = id}

\* acquire(modelId): a ready handle is shared, an unset id starts the one
\* backend load, a load in flight is awaited
acquire_call(t, id) ==
    /\ cache_pc[t] = "idle"
    /\ cache_id' = [cache_id EXCEPT ![t] = id]
    /\ IF models_[id].state = "Ready"
       THEN /\ models_' = [models_ EXCEPT ![id].refs = @ + 1]
            /\ cache_handle' = [cache_handle EXCEPT ![t] = models_[id].handle]
            /\ cache_pc' = [cache_pc EXCEPT ![t] = "got"]
            /\ UNCHANGED <<awaited, loads>>
       ELSE IF entry_unset(id)
       THEN /\ loads[id] < MaxLoads
            /\ loads' = [loads EXCEPT ![id] = @ + 1]
            /\ models_' = [models_ EXCEPT ![id].state = "Loading"]
            /\ cache_pc' = [cache_pc EXCEPT ![t] = "loading"]
            /\ UNCHANGED <<cache_handle, awaited>>
       ELSE /\ cache_pc' = [cache_pc EXCEPT ![t] = "waiting"]
            /\ awaited' = [awaited EXCEPT ![t] = TRUE]
            /\ UNCHANGED <<models_, cache_handle, loads>>
    /\ UNCHANGED nonCacheVars

\* the backend load of the loading caller ends: every caller of this id,
\* the loader and the ones that waited, receives its result; a failed load
\* leaves no entry
acquire_load_done(t, ok) ==
    /\ cache_pc[t] = "loading"
    /\ LET id == cache_id[t]
           receivers == {t} \cup CacheCallers(id, "waiting")
           handle == <<id, loads[id]>>
       IN IF ok
          THEN /\ models_' = [models_ EXCEPT ![id] =
                                 [state |-> "Ready", handle |-> handle,
                                  refs |-> Cardinality(receivers),
                                  evict |-> FALSE]]
               /\ cache_handle' = [u \in Threads |->
                                      IF u \in receivers THEN handle
                                      ELSE cache_handle[u]]
               /\ cache_pc' = [u \in Threads |->
                                  IF u \in receivers THEN "got"
                                  ELSE cache_pc[u]]
          ELSE /\ models_' = [models_ EXCEPT ![id] = NoEntry]
               /\ cache_handle' = [u \in Threads |->
                                      IF u \in receivers THEN LoadError
                                      ELSE cache_handle[u]]
               /\ cache_pc' = [u \in Threads |->
                                  IF u \in receivers THEN "failed"
                                  ELSE cache_pc[u]]
    /\ UNCHANGED <<cache_id, awaited, loads, nonCacheVars>>

\* release(handle), or the caller of a failed acquire going on; an eviction
\* that was deferred takes place when the reference count reaches 0
release(t) ==
    /\ cache_pc[t] \in {"got", "failed"}
    /\ LET id == cache_id[t]
       IN IF cache_pc[t] = "failed"
          THEN UNCHANGED models_
          ELSE models_' = [models_ EXCEPT ![id] =
                   IF @.refs = 1 /\ @.evict THEN NoEntry
                   ELSE [@ EXCEPT !.refs = @ - 1]]
    /\ cache_pc' = [cache_pc EXCEPT ![t] = "idle"]
    /\ cache_id' = [cache_id EXCEPT ![t] = 0]
    /\ cache_handle' = [cache_handle EXCEPT ![t] = NoHandle]
    /\ awaited' = [awaited EXCEPT ![t] = FALSE]
    /\ UNCHANGED <<loads, nonCacheVars>>

\* evict(modelId): at once when nobody holds the handle, deferred otherwise
evict(id) ==
    /\ models_[id].state = "Ready"
    /\ ~models_[id].evict
    /\ models_' = [models_ EXCEPT ![id] =
                      IF @.refs = 0 THEN NoEntry ELSE [@ EXCEPT !.evict = TRUE]]
    /\ UNCHANGED <<cache_pc, cache_id, cache_handle, awaited, loads,
                   nonCacheVars>>

NextCache ==
    \/ \E t \in Threads, id \in ModelIds : acquire_call(t, id)
    \/ \E t \in Threads, ok \in BOOLEAN : acquire_load_done(t, ok)
    \/ \E t \in Threads : release(t)
    \/ \E id \in ModelIds : evict(id)

CacheSpec == Init /\ [][NextCache]_vars


\* ------------------------------------------------------- EdgeCoordinator
\* The class is declared in llama_inference.h and defined nowhere in the
\* repository; its behaviour is the contract of the edge coordinator, each
\* operation one step under devices_mutex_.  No inference is dispatched
\* here, so the load of every device is 0 and its adjusted score is its
\* performance_score.
nonDeviceVars == <<modelVars, statVars, processing_mutex_, exportVars,
                   sampleVars, mainVars, cacheVars, cancel_requested, pc,
                   callVars, localVars, result, historyVars>>

Descriptor(score, online) ==
    [registered |-> TRUE, performance_score |-> score, is_online |-> online]

IsOnline(devs, d) == devs[d].registered /\ devs[d].is_online

device_better_ties_to_larger(devs, a, b) ==
    \/ devs[a].performance_score > devs[b].performance_score
    \/ /\ devs[a].performance_score = devs[b].performance_score
       /\ a > b

\* device a is chosen before device b: the higher score, and on equal scores
\* the smaller id
device_better(devs, a, b) ==
    \/ devs[a].performance_score > devs[b].performance_score
    \/ /\ devs[a].performance_score = devs[b].performance_score
       /\ a < b

\* the scan of the registry: d is the next device, best the choice so far
RECURSIVE scan_devices(_, _, _)
scan_devices(devs, d, best) ==
    IF d > NumDevices THEN best
    ELSE IF IsOnline(devs, d)
              /\ (best = NoDevice \/ device_better(devs, d, best))
         THEN scan_devices(devs, d + 1, d)
         ELSE scan_devices(devs, d + 1, best)

registerDevice(d, score, online) ==
    /\ devices_' = [devices_ EXCEPT ![d] = Descriptor(score, online)]
    /\ last_op' = "registerDevice"
    /\ UNCHANGED <<selected, prev_selected, nonDeviceVars>>

\* heartbeat(deviceId): the device is online again
heartbeat(d) ==
    /\ devices_[d].registered
    /\ devices_' = [devices_ EXCEPT ![d].is_online = TRUE]
    /\ last_op' = "heartbeat"
    /\ UNCHANGED <<selected, prev_selected, nonDeviceVars>>

\* monitorDevices: a device whose last heartbeat is too old is marked
\* offline and stays registered
monitorDevices(d) ==
    /\ IsOnline(devices_, d)
    /\ devices_' = [devices_ EXCEPT ![d].is_online = FALSE]
    /\ last_op' = "monitorDevices"
    /\ UNCHANGED <<selected, prev_selected, nonDeviceVars>>

\* getOptimalDevice: NoDevice stands for NoAvailableDeviceError
getOptimalDevice ==
    /\ selected' = scan_devices(devices_, 1, NoDevice)
    /\ prev_selected' = selected
    /\ last_op' = "getOptimalDevice"
    /\ UNCHANGED <<devices_, nonDeviceVars>>

NextDevice ==
    \/ \E d \in DeviceIds, score \in Scores, online \in BOOLEAN :
           registerDevice(d, score, online)
    \/ \E d \in DeviceIds : heartbeat(d)
    \/ \E d \in DeviceIds : monitorDevices(d)
    \/ getOptimalDevice

DeviceSpec == Init /\ [][NextDevice]_vars
\* ================================================================ claims
Front(seq) == SubSeq(seq, 1, Len(seq) - 1)
InGeneration(t) == pc[t] \in {"tokenize", "eval_prompt", "sample", "push_eval"}
AfterGeneration(t) ==
    pc[t] \in {"finish", "stat_req", "stat_tok", "stat_avg_load",
               "stat_avg_store", "return"}
Returning(t) == pc[t] = "unlock"
InProcessRequest(t) ==
    pc[t] = "lock" \/ InGeneration(t) \/ AfterGeneration(t) \/ Returning(t)

\* C1: the response a call returns for a request submitted with id r carries
\* a request_id field equal to r, in every processor state, through
\* processRequest and through the exported process_request.
C1_ResponseCarriesRequestId ==
    \A t \in Threads :
        pc[t] \in {"unlock", "pr_exit"}
            => /\ "request_id" \in DOMAIN result[t]
               /\ result[t].request_id = request_id[t]

\* C2: at most one thread is inside the tokenize / evaluate / sample steps
\* of processRequest at any time.
C2_OneGenerationAtATime ==
    \A t, u \in Threads : (InGeneration(t) /\ InGeneration(u)) => t = u

C2_Witness ==
    \E t, u \in Threads :
        /\ t # u
        /\ pc[t] = "push_eval"
        /\ response_tokens[t] # <<>>
        /\ pc[u] = "lock"

\* C3: whenever no processRequest call is in progress, total_requests equals
\* the number of processRequest calls that have returned, failed ones
\* included.
C3_TotalRequestsCountsEveryRequest ==
    (\A t \in Threads : ~InProcessRequest(t))
        => total_requests_processed_ = completed

\* C4: a generation makes at most n_predict + 1 backend evaluation calls (the
\* call a thread is about to make included) and never holds more than
\* n_predict emitted tokens.
C4_GenerationBounded ==
    \A t \in Threads :
        /\ evals[t] + (IF pc[t] \in {"eval_prompt", "push_eval"} THEN 1 ELSE 0)
               <= n_predict + 1
        /\ Len(response_tokens[t])
               + (IF pc[t] = "push_eval" THEN 1 ELSE 0) <= n_predict
        /\ i[t] <= n_predict

C4_Witness ==
    \E t \in Threads :
        /\ pc[t] = "finish"
        /\ evals[t] = n_predict + 1
        /\ Len(response_tokens[t]) = n_predict

EosSampled(t) ==
    /\ sampled[t] # <<>>
    /\ sampled[t][Len(sampled[t])] = llama_token_eos

\* C5: once the end-of-sequence token is sampled as the k-th token, the
\* generation has halted: the k-1 tokens before it are the output, the
\* end-of-sequence token is neither in the output nor evaluated, the output
\* is shorter than n_predict, and the request returns a success response
\* with exactly those tokens.
C5_EosHaltsGeneration ==
    [][\A t \in Threads :
          EosSampled(t) =>
              /\ AfterGeneration(t)
              /\ Len(sampled[t]) <= n_predict
              /\ response_tokens[t] = Front(sampled[t])
              /\ \A j \in 1..Len(response_tokens[t]) :
                     response_tokens[t][j] # llama_token_eos
              /\ Len(response_tokens[t]) < n_predict
              /\ evals[t] = Len(sampled[t])
              /\ (pc[t] = "return" /\ pc'[t] # "return") =>
                     /\ Returning(t)'
                     /\ result'[t].success = TRUE
                     /\ result'[t].request_id = request_id[t]
                     /\ result'[t].response = detokenize(Front(sampled[t]))
      ]_vars

C5_Witness ==
    \E t \in Threads :
        /\ pc[t] = "return"
        /\ EosSampled(t)
        /\ Len(sampled[t]) = n_predict
        /\ Len(response_tokens[t]) = n_predict - 1

\* C6: a request that fails in tokenization or in a backend evaluation
\* returns an error response with success = false for its own id, leaves
\* the model loaded and the statistics and every other thread untouched, and
\* releases the processing lock when it returns, so a waiting request can
\* take the lock.
C6_FailureIsIsolated ==
    [][\A t \in Threads :
          /\ (InGeneration(t) /\ Returning(t)') =>
                 /\ result'[t].success = FALSE
                 /\ "error" \in DOMAIN result'[t]
                 /\ result'[t].request_id = request_id[t]
                 /\ model_' = model_ /\ ctx_' = ctx_
                 /\ model_' # nullptr /\ ctx_' # nullptr
                 /\ statVars' = statVars
                 /\ \A u \in Threads \ {t} :
                        /\ pc'[u] = pc[u]
                        /\ result'[u] = result[u]
                        /\ request_id'[u] = request_id[u]
                        /\ prompt'[u] = prompt[u]
          /\ (Returning(t) /\ ~Returning(t)') =>
                 /\ processing_mutex_' = NoThread
                 /\ model_' = model_ /\ ctx_' = ctx_
      ]_vars

\* a request has failed with an exception, and a request that waited for the
\* lock meanwhile or was submitted later returns a success response
C6_Witness ==
    \E t \in Threads :
        /\ caught > 0
        /\ completed > 0
        /\ Returning(t)
        /\ result[t].success = TRUE
        /\ model_ # nullptr

\* C7: the response of a request whose backend evaluation failed after
\* tokens had been emitted carries those tokens and is tagged incomplete.
C7_PartialOutputReturned ==
    \A t \in Threads :
        (/\ Returning(t)
         /\ "error" \in DOMAIN result[t]
         /\ result[t].error = "Failed to evaluate token")
            => /\ "response" \in DOMAIN result[t]
               /\ "incomplete" \in DOMAIN result[t]

\* C8: every value getStats returns is the statistics as they were after a
\* whole number of completed requests.
C8_StatsLinearizable ==
    \A t \in Threads : pc[t] = "gs_ret" => result[t] \in snapshots

RECURSIVE SumOver(_, _)
SumOver(S, f) ==
    IF S = {} THEN 0
    ELSE LET x == CHOOSE y \in S : TRUE
         IN f[x] + SumOver(S \ {x}, f)

\* prompt + completion tokens of the requests that have passed the token
\* update and have not yet built their response
PendingTokens ==
    SumOver({t \in Threads : pc[t] \in {"stat_avg_load", "stat_avg_store",
                                        "return"}},
            [t \in Threads |-> Len(tokens[t]) + Len(response_tokens[t])])

\* C9: total_tokens is the sum, over the requests that returned a success
\* response, of prompt tokens + completion tokens (plus the request that has
\* updated the counter and is about to return); the token update adds
\* exactly that amount; neither counter ever decreases.
C9_TotalTokensIsSumOfSuccesses ==
    [][/\ total_tokens_processed_' = success_tokens' + PendingTokens'
       /\ total_tokens_processed_' >= total_tokens_processed_
       /\ total_requests_processed_' >= total_requests_processed_
       /\ \A t \in Threads :
              (pc[t] = "stat_tok" /\ pc'[t] # "stat_tok") =>
                  total_tokens_processed_' - total_tokens_processed_
                      = Len(tokens[t]) + Len(response_tokens[t])
       /\ \A t \in Threads :
              (pc[t] = "return" /\ Returning(t)') =>
                  /\ result'[t].success = TRUE
                  /\ success_tokens' - success_tokens
                         = Len(tokens[t]) + Len(response_tokens[t])
       /\ \A t \in Threads :
              (pc[t] # "return" /\ pc[t] # "unlock" /\ Returning(t)') =>
                  /\ result'[t].success = FALSE
                  /\ success_tokens' = success_tokens
      ]_vars

C9_Witness ==
    /\ \A t \in Threads : pc[t] = "idle"
    /\ total_requests_processed_ = 2
    /\ success_tokens > 2 * 2
    /\ total_tokens_processed_ = success_tokens

\* C10: sample_token returns an index whose logit is maximal, and the
\* lowest such index.
C10_GreedyLowestArgmax ==
    sample_in # NoLogits =>
        /\ sample_out \in 0..(n_vocab - 1)
        /\ \A j \in 1..n_vocab : sample_in[j] <= sample_in[sample_out + 1]
        /\ \A j \in 1..sample_out : sample_in[j] < sample_in[sample_out + 1]

C10_Witness ==
    /\ sample_in # NoLogits
    /\ sample_out >= 1
    /\ \E j \in (sample_out + 2)..n_vocab :
           sample_in[j] = sample_in[sample_out + 1]

\* C11: every response envelope carries success, request_id,
\* processing_time_ms and timestamp, and exactly one of response and error:
\* response when success is true, error when it is false.
C11_EnvelopeFields ==
    \A t \in Threads :
        pc[t] \in {"unlock", "pr_exit"} =>
            /\ {"success", "request_id", "processing_time_ms", "timestamp"}
                   \subseteq DOMAIN result[t]
            /\ ("response" \in DOMAIN result[t]) = (result[t].success = TRUE)
            /\ ("error" \in DOMAIN result[t]) = (result[t].success = FALSE)

\* C12: requests are served in arrival order: while the generation of a
\* request runs, every request still waiting for the processor arrived
\* after it did (request ids are handed out in arrival order).
C12_ServedInArrivalOrder ==
    \A t, u \in Threads :
        (InGeneration(t) /\ pc[u] = "lock")
            => request_id[t] < request_id[u]

\* main has just executed std::getline
LineRead == reads' = reads + 1

\* C13: in the interactive loop the n-th submitted prompt gets the id
\* local_n, n = 1, 2, ... without gap or repeat; an empty line submits
\* nothing and consumes no id; quit or exit ends the loop and submits
\* nothing; every other line is submitted once.
C13_SequentialLocalIds ==
    [][/\ Len(submitted') = request_count'
       /\ \A n \in 1..Len(submitted') : submitted'[n] = LocalId(n)
       /\ LineRead =>
              /\ main_prompt'.text \in {"quit", "exit"} =>
                     /\ main_pc' = "done"
                     /\ pc'[MainThread] = "idle"
                     /\ submitted' = submitted
                     /\ request_count' = request_count
              /\ main_prompt' = EmptyLine =>
                     /\ main_pc' = "loop"
                     /\ pc'[MainThread] = "idle"
                     /\ submitted' = submitted
                     /\ request_count' = request_count
              /\ main_prompt'.text = "prompt" =>
                     /\ main_pc' = "loop"
                     /\ pc'[MainThread] = "lock"
                     /\ request_id'[MainThread] = LocalId(Len(submitted) + 1)
                     /\ prompt'[MainThread] = main_prompt'.size
                     /\ submitted' = Append(submitted, LocalId(Len(submitted) + 1))
       /\ ~LineRead => submitted' = submitted /\ request_count' = request_count
       /\ main_pc = "done" => main_pc' = "done" /\ pc'[MainThread] = "idle"
      ]_vars

\* a prompt, an empty line and a second prompt have been read, and the
\* second prompt has just been submitted as local_2
C13_Witness ==
    /\ main_pc = "loop"
    /\ pc[MainThread] = "lock"
    /\ cin_state = "good"
    /\ reads = 3
    /\ submitted = <<LocalId(1), LocalId(2)>>
    /\ request_id[MainThread] = LocalId(2)


\* C14: concurrent acquisitions of a model id that is not in the cache
\* trigger one backend load: at most one load of an id is in flight, a load
\* starts only for an unset id, callers arriving during the load start none,
\* and all the callers the load serves receive the handle it produced, which
\* is the handle in the cache.
C14_OneLoadPerModelId ==
    [][\A id \in ModelIds :
          /\ Cardinality(CacheCallers(id, "loading")') <= 1
          /\ (CacheCallers(id, "loading")' # {})
                 = (models_'[id].state = "Loading")
          /\ CacheCallers(id, "waiting")' # {}
                 => CacheCallers(id, "loading")' # {}
          /\ loads'[id] # loads[id] =>
                 /\ loads'[id] = loads[id] + 1
                 /\ models_[id].state = "Unloaded"
                 /\ CacheCallers(id, "loading") = {}
                 /\ CacheCallers(id, "waiting") = {}
          /\ \A t \in CacheCallers(id, "loading") \cup CacheCallers(id, "waiting") :
                 /\ loads'[id] = loads[id]
                 /\ cache_pc'[t] = "got" =>
                        /\ cache_handle'[t] = <<id, loads[id]>>
                        /\ \A u \in CacheCallers(id, "waiting") :
                               cache_pc'[u] = "got"
          /\ \A t \in CacheCallers(id, "got")' :
                 /\ models_'[id].state = "Ready"
                 /\ cache_handle'[t] = models_'[id].handle
      ]_vars

\* two callers hold the handle of the same id, one of them waited for the
\* load the other one made, and that load is the only one of this id
C14_Witness ==
    \E t, u \in Threads, id \in ModelIds :
        /\ t # u
        /\ CacheCallers(id, "got") = {t, u}
        /\ awaited[u] /\ ~awaited[t]
        /\ loads[id] = 1
        /\ cache_handle[t] = cache_handle[u]
        /\ cache_handle[t] = <<id, 1>>

\* C15: once the cancellation of a request was requested while its
\* generation loop was running, the loop emits no further token, and the
\* response of that request, if its backend calls all succeeded, is tagged
\* incomplete = true with stop reason Cancelled.
C15_CancelStopsGeneration ==
    [][\A t \in Threads :
          request_id[t] \in cancel_requested =>
              /\ pc[t] = "sample" => pc'[t] # "push_eval"
              /\ (Returning(t)' /\ "error" \notin DOMAIN result'[t]) =>
                     /\ "incomplete" \in DOMAIN result'[t]
                     /\ result'[t].incomplete = TRUE
                     /\ "stop_reason" \in DOMAIN result'[t]
                     /\ result'[t].stop_reason = "Cancelled"
      ]_vars

OnlineDevices == {d \in DeviceIds : IsOnline(devices_, d)}

\* C16: the device getOptimalDevice returns is online, no online device has
\* a higher score, and among the online devices of that score it has the
\* smallest id (no device at all when none is online); a second call on an
\* unchanged registry returns the same device.
C16_OptimalDevice ==
    [][/\ last_op' = "getOptimalDevice" =>
              IF OnlineDevices' = {} THEN selected' = NoDevice
              ELSE /\ selected' \in OnlineDevices'
                   /\ \A d \in OnlineDevices' :
                          \/ devices_'[d].performance_score
                                 < devices_'[selected'].performance_score
                          \/ /\ devices_'[d].performance_score
                                    = devices_'[selected'].performance_score
                             /\ selected' <= d
       /\ (last_op = "getOptimalDevice" /\ last_op' = "getOptimalDevice")
              => selected' = selected
      ]_vars

\* device 1 (score 1) and device 2 (score 2) were online and a call returned
\* device 2; device 2 was marked offline and the next call returned device 1
C16_Witness ==
    /\ last_op = "getOptimalDevice"
    /\ devices_[1] = Descriptor(1, TRUE)
    /\ devices_[2] = Descriptor(2, FALSE)
    /\ prev_selected = 2
    /\ selected = 1

\* C17: the string a caller of process_request or get_processor_stats reads
\* through the returned pointer is the response to its own call: the static
\* string behind the pointer was last assigned by the caller's own call and,
\* for process_request, carries the caller's request id.
C17_CallerReadsOwnResponse ==
    \A t \in Threads :
        pc[t] = "read" =>
            /\ ret_ptr[t] = "last_result" =>
                   /\ last_result_by = t
                   /\ last_result.request_id = request_id[t]
            /\ ret_ptr[t] = "stats_result" => stats_result_by = t

\* thread t is inside an exported call that uses the global processor
UsesProcessor(t) ==
    \/ caller[t] = "process_request"
    \/ pc[t] = "gps_exit" /\ result[t] # StatsNotInitialized

\* C18: while a process_request or get_processor_stats call is using the
\* global processor, the caller holds global_mutex, the processor exists, and
\* no step deletes or replaces it or its model and context: no such step is
\* a step of initialize_processor or shutdown_processor.
C18_ProcessorKeptWhileInUse ==
    [][\A t \in Threads :
          UsesProcessor(t) =>
              /\ global_mutex = t
              /\ global_processor # nullptr
              /\ global_processor' = global_processor
              /\ model_' = model_
              /\ ctx_' = ctx_
              /\ ~(\E u \in Threads :
                       initialize_processor(u) \/ shutdown_processor(u))
      ]_vars

\* the generation of the last request runs inside process_request, holding
\* global_mutex, while another thread is idle and ready to call
\* initialize_processor or shutdown_processor
C18_Witness ==
    \E t, u \in Threads :
        /\ t # u
        /\ caller[t] = "process_request"
        /\ pc[t] = "push_eval"
        /\ global_mutex = t
        /\ pc[u] = "idle"
        /\ nextId > MaxRequests

\* C19: the position passed to a backend evaluation call is the number of
\* tokens the generation has evaluated before it: 0 for the prompt, and for
\* a generated token the prompt length plus the number of tokens generated
\* before it.
C19_EvalPositionsContiguous ==
    [][\A t \in Threads :
          /\ (pc[t] = "eval_prompt" /\ pc'[t] = "sample") => n_past'[t] = 0
          /\ (pc[t] = "push_eval" /\ pc'[t] = "sample") =>
                 n_past'[t] = Len(tokens[t]) + Len(response_tokens[t])
      ]_vars

\* C20: every model and every context obtained from the backend is freed
\* before the processor loses its pointer to it, and the processor never
\* holds a context without a model.
C20_BackendObjectsFreed ==
    /\ ~model_leaked
    /\ ~ctx_leaked
    /\ ctx_ # nullptr => model_ # nullptr

\* C21: the interactive loop ends when its input ends: an iteration whose
\* std::getline extracts nothing because standard input is at end-of-file
\* leaves the loop.
C21_LoopExitsAtEndOfInput ==
    [][(LineRead /\ cin_state' = "fail") => main_pc' = "done"]_vars
====
